---- MODULE Spec2Model ----
(***************************************************************************)
(* Valuation request / cache pipeline of the equipment valuation tool:     *)
(* backend/valuation_engine/claude_valuation.py (fingerprint, file cache   *)
(* behind an in-process lru_cache, response parser, retrying valuation     *)
(* client, enhancement, batch loop) and the entry point batch_process.py.  *)
(*                                                                         *)
(* Texts are sequences of tokens, JSON values are tagged records, a file   *)
(* of ./cache holds the token sequence json.dump wrote.  The external LLM  *)
(* client is an input: each invocation either raises or returns a text.    *)
(***************************************************************************)
EXTENDS Integers, Sequences, FiniteSets, TLC

(***************************************************************************)
(* Tokens of a text.  t is the kind: "p" punctuation, "w" a word of prose, *)
(* "n" a number literal, "s" a string literal with content q, "fo" the     *)
(* opening fence ```json\n and "fc" the closing fence \n```, "deep" a run   *)
(* of [ longer than the recursion limit of the interpreter.                *)
(***************************************************************************)
P(c) == [t |-> "p", s |-> c, q |-> <<>>]
W(w) == [t |-> "w", s |-> w, q |-> <<>>]
N(n) == [t |-> "n", s |-> n, q |-> <<>>]
S(text) == [t |-> "s", s |-> "", q |-> text]
FenceOpen == [t |-> "fo", s |-> "", q |-> <<>>]
FenceClose == [t |-> "fc", s |-> "", q |-> <<>>]
Deep == [t |-> "deep", s |-> "[", q |-> <<>>]

\* The text of a Python str made of one word.
Str(w) == <<W(w)>>

(***************************************************************************)
(* Python / JSON values.  A dict keeps its items in insertion order as     *)
(* <<key text, value>> pairs; a list keeps <<(empty), value>> pairs.       *)
(***************************************************************************)
None == [type |-> "none", s |-> <<>>, items |-> <<>>]
JStr(text) == [type |-> "str", s |-> text, items |-> <<>>]
JNum(n) == [type |-> "num", s |-> Str(n), items |-> <<>>]
JDict(items) == [type |-> "dict", s |-> <<>>, items |-> items]
JList(items) == [type |-> "list", s |-> <<>>, items |-> items]

\* bool(v) of Python.
Truthy(v) ==
    CASE v.type = "none" -> FALSE
      [] v.type = "str" -> v.s # <<>>
      [] v.type = "num" -> v.s # Str("0")
      [] OTHER -> v.items # <<>>

\* k in d
HasKey(d, k) == d.type = "dict" /\ \E i \in 1..Len(d.items) : d.items[i][1] = Str(k)

\* d.get(k, default)
DictGet(d, k, default) ==
    IF HasKey(d, k)
    THEN d.items[CHOOSE i \in 1..Len(d.items) : d.items[i][1] = Str(k)][2]
    ELSE default

\* Mutant of PutItem: an existing key keeps its value.
PutItem_KeepFirst(items, key, v) ==
    IF \E i \in 1..Len(items) : items[i][1] = key
    THEN items
    ELSE Append(items, <<key, v>>)

\* d[k] = v on the item sequence: an existing key keeps its position.
PutItem(items, key, v) ==
    IF \E i \in 1..Len(items) : items[i][1] = key
    THEN [i \in 1..Len(items) |-> IF items[i][1] = key THEN <<key, v>> ELSE items[i]]
    ELSE Append(items, <<key, v>>)

DictSet(d, k, v) == JDict(PutItem(d.items, Str(k), v))

(***************************************************************************)
(* json.loads on a token sequence: objects, arrays, strings and numbers.   *)
(* ParseValue reads one value from the front of ts.  A result that is not  *)
(* ok carries the exception: json.JSONDecodeError for a malformed text,    *)
(* RecursionError when the arrays are nested deeper than the interpreter   *)
(* recurses.                                                               *)
(***************************************************************************)
ParseFail == [ok |-> FALSE, val |-> None, rest |-> <<>>, exc |-> "JSONDecodeError"]
ParseTooDeep == [ok |-> FALSE, val |-> None, rest |-> <<>>, exc |-> "RecursionError"]
ParseOk(v, rest) == [ok |-> TRUE, val |-> v, rest |-> rest, exc |-> ""]

RECURSIVE ParseValue(_), ParseMembers(_, _), ParseElems(_, _)
ParseValue(ts) ==
    IF ts = <<>> THEN ParseFail
    ELSE LET h == Head(ts) IN
         CASE h.t = "s" -> ParseOk(JStr(h.q), Tail(ts))
           [] h.t = "n" -> ParseOk(IF h.s = "null" THEN None ELSE JNum(h.s), Tail(ts))
           [] h = P("{") ->
                IF Len(ts) >= 2 /\ ts[2] = P("}")
                THEN ParseOk(JDict(<<>>), SubSeq(ts, 3, Len(ts)))
                ELSE ParseMembers(Tail(ts), <<>>)
           [] h = P("[") ->
                IF Len(ts) >= 2 /\ ts[2] = P("]")
                THEN ParseOk(JList(<<>>), SubSeq(ts, 3, Len(ts)))
                ELSE ParseElems(Tail(ts), <<>>)
           [] h.t = "deep" -> ParseTooDeep
           [] OTHER -> ParseFail

\* key : value , ... }   (a repeated key keeps the last value)
ParseMembers(ts, acc) ==
    IF Len(ts) < 2 \/ ts[1].t # "s" \/ ts[2] # P(":") THEN ParseFail
    ELSE LET r == ParseValue(SubSeq(ts, 3, Len(ts))) IN
         IF ~r.ok THEN r
         ELSE IF r.rest = <<>> THEN ParseFail
         ELSE LET acc2 == PutItem(acc, ts[1].q, r.val) IN
              CASE Head(r.rest) = P("}") -> ParseOk(JDict(acc2), Tail(r.rest))
                [] Head(r.rest) = P(",") -> ParseMembers(Tail(r.rest), acc2)
                [] OTHER -> ParseFail

\* value , ... ]
ParseElems(ts, acc) ==
    LET r == ParseValue(ts) IN
    IF ~r.ok THEN r
    ELSE IF r.rest = <<>> THEN ParseFail
    ELSE LET acc2 == Append(acc, <<<<>>, r.val>>) IN
         CASE Head(r.rest) = P("]") -> ParseOk(JList(acc2), Tail(r.rest))
           [] Head(r.rest) = P(",") -> ParseElems(Tail(r.rest), acc2)
           [] OTHER -> ParseFail

\* json.loads(ts): the whole text must be one value; when not ok, exc is the
\* exception raised.
json_loads(ts) ==
    LET r == ParseValue(ts) IN
    IF r.ok /\ r.rest = <<>> THEN [ok |-> TRUE, val |-> r.val, exc |-> ""]
    ELSE [ok |-> FALSE, val |-> None,
          exc |-> IF r.ok THEN "JSONDecodeError" ELSE r.exc]

(***************************************************************************)
(* json.dumps: the token sequence written for a value.                     *)
(***************************************************************************)
RECURSIVE json_dumps(_), DumpItems(_, _)
json_dumps(v) ==
    CASE v.type = "str" -> <<S(v.s)>>
      [] v.type = "num" -> <<N(v.s[1].s)>>
      [] v.type = "dict" -> <<P("{")>> \o DumpItems(v.items, TRUE) \o <<P("}")>>
      [] v.type = "list" -> <<P("[")>> \o DumpItems(v.items, FALSE) \o <<P("]")>>
      [] OTHER -> <<N("null")>>

DumpItems(items, keyed) ==
    IF items = <<>> THEN <<>>
    ELSE (IF keyed THEN <<S(Head(items)[1]), P(":")>> ELSE <<>>)
         \o json_dumps(Head(items)[2])
         \o (IF Len(items) > 1 THEN <<P(",")>> ELSE <<>>)
         \o DumpItems(Tail(items), keyed)

(***************************************************************************)
(* parse_claude_response.  The texts given to it carry no brace inside a   *)
(* string literal, so find('{') / rfind('}') are searches over tokens.     *)
(***************************************************************************)
Positions(ts, tok) == {i \in 1..Len(ts) : ts[i] = tok}
SetMin(X) == CHOOSE x \in X : \A y \in X : x <= y
SetMax(X) == CHOOSE x \in X : \A y \in X : x >= y

\* re.search(r'```json\n(.*?)\n```', text, re.DOTALL): the leftmost opening fence
\* that has a closing fence after it, and the nearest such closing fence.
FenceMatch(ts) ==
    LET opens == {i \in Positions(ts, FenceOpen) :
                    \E j \in Positions(ts, FenceClose) : j > i}
    IN IF opens = {} THEN [found |-> FALSE, group |-> <<>>]
       ELSE LET i == SetMin(opens)
                j == SetMin({k \in Positions(ts, FenceClose) : k > i})
            IN [found |-> TRUE, group |-> SubSeq(ts, i + 1, j - 1)]

\* The second strategy: the text from the first { to the last }; its bare
\* except takes every exception of json.loads.
BraceSlice(ts) ==
    LET starts == Positions(ts, P("{"))
        ends == Positions(ts, P("}"))
    IN IF starts # {} /\ ends # {} /\ SetMax(ends) > SetMin(starts)
       THEN json_loads(SubSeq(ts, SetMin(starts), SetMax(ends)))
       ELSE [ok |-> FALSE, val |-> None, exc |-> ""]

\* The first strategy catches json.JSONDecodeError only: any other exception
\* of json.loads on the fenced block leaves parse_claude_response.
ParseRaises(response_content) ==
    LET m == FenceMatch(response_content) IN
    m.found /\ json_loads(m.group).exc \notin {"", "JSONDecodeError"}
\* The value parse_claude_response returns when it does not raise.
parse_claude_response(response_content) ==
    LET m == FenceMatch(response_content)
        fenced == IF m.found THEN json_loads(m.group)
                  ELSE [ok |-> FALSE, val |-> None, exc |-> ""]
        braced == BraceSlice(response_content)
    IN IF fenced.ok THEN fenced.val
       ELSE IF braced.ok THEN braced.val
       ELSE JDict(<<<<Str("raw_response"), JStr(response_content)>>>>)

(***************************************************************************)
(* Equipment rows.  A row has the five columns the pipeline reads; Missing *)
(* marks a column the row does not have, NaN a cell pandas reads as NaN.   *)
(***************************************************************************)
Missing == "<missing>"
NaN == "<nan>"
Row(u, d, y, l, c) ==
    [Unit |-> u, Description |-> d, Year |-> y, Location |-> l, Condition |-> c]
NoRow == Row(Missing, Missing, Missing, Missing, Missing)

Exc(type, msg) == [type |-> type, msg |-> msg]
NoExc == Exc("", <<>>)

\* The exception with which parse_claude_response ends when ParseRaises.
ParseException(response_content) ==
    Exc(json_loads(FenceMatch(response_content).group).exc,
        Str("maximum recursion depth exceeded"))

\* The module imports os, json, anthropic, hashlib, dotenv, functools, tqdm, re
\* and time, and never pandas: the name pd is unbound, so evaluating pd.isna
\* raises NameError.
PdDefined == FALSE
PdNameError == Exc("NameError", Str("name 'pd' is not defined"))

\* `col in row and not pd.isna(row[col])`: "raise" when pd.isna is reached.
PresentNotNa(cell) ==
    IF cell = Missing THEN "false"
    ELSE IF ~PdDefined THEN "raise"
    ELSE IF cell = NaN THEN "false" ELSE "true"

\* get_equipment_hash.  md5(...).hexdigest() is taken to be injective: the digest
\* of item_str is the one-element sequence <<item_str>>.
get_equipment_hash(row) ==
    IF row.Unit = Missing THEN [ok |-> FALSE, exc |-> Exc("KeyError", Str("Unit #")), h |-> <<>>]
    ELSE IF row.Description = Missing
    THEN [ok |-> FALSE, exc |-> Exc("KeyError", Str("Description")), h |-> <<>>]
    ELSE LET s0 == row.Unit \o "|" \o row.Description
             y == PresentNotNa(row.Year)
             s1 == IF y = "true" THEN s0 \o "|" \o row.Year ELSE s0
             c == PresentNotNa(row.Condition)
             s2 == IF c = "true" THEN s1 \o "|" \o row.Condition ELSE s1
         IN IF y = "raise" \/ c = "raise"
            THEN [ok |-> FALSE, exc |-> PdNameError, h |-> <<>>]
            ELSE [ok |-> TRUE, exc |-> NoExc, h |-> <<s2>>]

\* Mutant of EnhancedKey: the suffix is forgotten.
EnhancedKey_NoSuffix(h) == h

\* get_equipment_hash(row) + "_enhanced"
EnhancedKey(h) == Append(h, "_enhanced")

(***************************************************************************)
(* The result cache: one file per key under ./cache, read through          *)
(* functools.lru_cache.                                                    *)
(***************************************************************************)
NoFile == [exists |-> FALSE, data |-> <<>>]
File(data) == [exists |-> TRUE, data |-> data]

maxsize == 1000

\* Mutant of ReadCacheFile: a file that does not load reads as an empty result.
ReadCacheFile_EmptyOnError(files, equipment_hash) ==
    LET f == files[equipment_hash] IN
    IF f.exists
    THEN LET r == json_loads(f.data) IN IF r.ok THEN r.val ELSE JDict(<<>>)
    ELSE None

\* The body of get_cached_valuation: None when there is no file or it does not load.
ReadCacheFile(files, equipment_hash) ==
    LET f == files[equipment_hash] IN
    IF f.exists
    THEN LET r == json_loads(f.data) IN IF r.ok THEN r.val ELSE None
    ELSE None

\* A file that json.load does not read.
Unreadable(f) == f.exists /\ ~json_loads(f.data).ok

\* An lru_cache in front of ReadCacheFile.  lru is the sequence of memoized
\* <<key, value>> entries, least recently used first.  Returns the value and
\* the new lru.
get_cached_valuation(lru, files, equipment_hash) ==
    LET hits == {i \in 1..Len(lru) : lru[i][1] = equipment_hash} IN
    IF hits # {}
    THEN LET i == CHOOSE j \in hits : TRUE
         IN [val |-> lru[i][2],
             lru |-> Append(SubSeq(lru, 1, i - 1) \o SubSeq(lru, i + 1, Len(lru)), lru[i])]
    ELSE LET v == ReadCacheFile(files, equipment_hash)
             grown == Append(lru, <<equipment_hash, v>>)
         IN [val |-> v,
             lru |-> IF Len(grown) > maxsize THEN Tail(grown) ELSE grown]

\* What the storage does to one write.  "ok": the file holds the dump.
\* "open_fail": os.makedirs or open raises, nothing changes.  "write_fail": open
\* has created or truncated the file and the buffered write raises when it is
\* flushed, leaving the file empty.
IOOutcomes == {"ok", "open_fail", "write_fail"}
OSError == Exc("OSError", Str("OSError"))

save_to_cache(files, equipment_hash, result, io) ==
    LET dump == json_dumps(result) IN
    CASE io = "ok" ->
            [files |-> [files EXCEPT ![equipment_hash] = File(dump)], raised |-> FALSE]
      [] io = "open_fail" -> [files |-> files, raised |-> TRUE]
      [] OTHER ->
            [files |-> [files EXCEPT ![equipment_hash] = File(<<>>)], raised |-> TRUE]

(***************************************************************************)
(* Inputs of the model.                                                    *)
(***************************************************************************)
RowDozer == Row("A1", "Dozer", Missing, Missing, Missing)
RowCrane == Row("A2", "Crane", Missing, Missing, Missing)
RowLocated == Row("A1", "Dozer", Missing, "TX", Missing)
RowDated == Row("A3", "Loader", "2015", Missing, Missing)
RowNoUnit == Row(Missing, "Dozer", Missing, Missing, Missing)
\* The rows given to valuate and enhance on their own.
Rows == {RowDozer, RowCrane, RowDated, RowNoUnit}

HashKeys == {get_equipment_hash(r).h : r \in {x \in Rows : get_equipment_hash(x).ok}}
Keys == HashKeys \cup {EnhancedKey(h) : h \in HashKeys}

\* Texts the LLM service returns.
TextFenced ==
    <<W("Valuation"), FenceOpen, P("{"), S(Str("new_value")), P(":"), N("50000"), P(","),
      S(Str("justification")), P(":"), S(Str("comparables")), P("}"), FenceClose>>
TextEmpty == <<P("{"), P("}")>>
TextError == <<P("{"), S(Str("error")), P(":"), S(Str("unknown equipment")), P("}")>>
TextList == <<FenceOpen, P("["), N("1"), P("]"), FenceClose>>
TextRaw == <<W("no"), W("estimate")>>
Texts == {TextFenced, TextEmpty, TextError, TextList, TextRaw}

\* Messages of the exceptions the client raises.
Msgs == {Str("timeout"), Str("overloaded")}

\* One invocation of client.messages.create: it raises or returns a text.
ClientOutcomes ==
    {[raised |-> TRUE, msg |-> m, content |-> <<>>] : m \in Msgs}
    \cup {[raised |-> FALSE, msg |-> <<>>, content |-> t] : t \in Texts \ {TextRaw}}

\* Well-formed results without an error key, for direct stores and as prior
\* valuations handed to the enhancement.
StoreVals == {parse_claude_response(TextFenced), JDict(<<>>)}

\* The number of top-level operations of a behaviour (restarts not counted).
MaxOps == 2

(***************************************************************************)
(* State.                                                                  *)
(***************************************************************************)
VARIABLES
    cache,    \* the files of ./cache: key -> file
    memo,     \* the lru_cache of get_cached_valuation
    pc,       \* "idle", "attempt" (in the retry loop), "batch" (in the batch loop)
    op,       \* the top-level operation running or last run
    fr,       \* the locals of process_equipment_item
    calls,    \* invocations of the external service by the current item
    sleeps,   \* the delays of time.sleep in the retry loop of the current item
    ret,      \* what the last top-level operation returned or raised
    batch,    \* the locals of process_equipment_list
    stored,   \* history: the <<key, result>> pairs written in full by save_to_cache
    nops,     \* the number of top-level operations started
    hashed,   \* two rows and the fingerprints get_equipment_hash gave them
    parsing,  \* a text and what parse_claude_response made of it
    main      \* the locals of main in batch_process.py and its output directory

vars == <<cache, memo, pc, op, fr, calls, sleeps, ret, batch, stored, nops,
          hashed, parsing, main>>

NoRet == [kind |-> "none", val |-> None, exc |-> NoExc]
Return(v) == [kind |-> "return", val |-> v, exc |-> NoExc]
Raise(e) == [kind |-> "raise", val |-> None, exc |-> e]

Op(name, row, key, arg) == [name |-> name, row |-> row, key |-> key, arg |-> arg]
NoOp == Op("none", NoRow, <<>>, None)

max_retries == 3
initial_retry_delay == 2

\* first_ok and first_text are history: the number of the first invocation of
\* the service that returned (0: none yet) and the text it returned.  So are
\* last_msg, the message of the latest exception the service raised,
\* io_failed, whether save_to_cache has raised, and unreadable, whether the
\* file of the row was unreadable when the row was looked up.
NoFrame ==
    [row |-> NoRow, item_hash |-> <<>>, looked |-> FALSE, cached |-> None,
     attempt |-> 0, retry_delay |-> initial_retry_delay,
     first_ok |-> 0, first_text |-> <<>>, last_msg |-> <<>>, io_failed |-> FALSE,
     unreadable |-> FALSE]

NoLimit == [given |-> FALSE, n |-> 0]
Limit(n) == [given |-> TRUE, n |-> n]
\* valuated and item_results are history: the rows handed to
\* process_equipment_item so far and what it returned for each.
NoBatch ==
    [active |-> FALSE, df |-> <<>>, max_items |-> NoLimit, process_df |-> <<>>,
     idx |-> 1, results |-> <<>>, valuated |-> <<>>, item_results |-> <<>>]

\* Nothing fingerprinted yet: the two rows and, once done, what
\* get_equipment_hash returned for each.
NoHashResult == [ok |-> FALSE, exc |-> NoExc, h |-> <<>>]
NoHashed == [a |-> NoRow, b |-> NoRow, done |-> FALSE, ha |-> NoHashResult, hb |-> NoHashResult]

\* Nothing parsed yet: the text and, once done, the value returned or the
\* exception raised.
NoParsing == [text |-> <<>>, done |-> FALSE, val |-> None, exc |-> NoExc]

\* main of batch_process.py before it runs.  out is the output directory, a
\* sequence of <<file name, content>> pairs; code is the completion code
\* (-1: main has not returned).
NoMain ==
    [state |-> "none", input_exists |-> FALSE, made_dir |-> FALSE, loaded |-> FALSE,
     validated_df |-> <<>>, limit |-> NoLimit, out |-> <<>>, code |-> -1, exc |-> NoExc]

Init ==
    /\ hashed = NoHashed /\ parsing = NoParsing /\ main = NoMain
    /\ cache = [k \in Keys |-> NoFile]
    /\ memo = <<>>
    /\ pc = "idle"
    /\ op = NoOp
    /\ fr = NoFrame
    /\ calls = 0
    /\ sleeps = <<>>
    /\ ret = NoRet
    /\ batch = NoBatch
    /\ stored = {}
    /\ nops = 0

(***************************************************************************)
(* The cache used on its own: lookup(f) and store(f, r).                   *)
(***************************************************************************)
Lookup(k) ==
    /\ pc = "idle" /\ nops < MaxOps
    /\ LET r == get_cached_valuation(memo, cache, k) IN
       /\ memo' = r.lru
       /\ ret' = Return(r.val)
    /\ op' = Op("lookup", NoRow, k, None)
    /\ nops' = nops + 1
    /\ fr' = NoFrame /\ calls' = 0 /\ sleeps' = <<>>
    /\ UNCHANGED <<cache, pc, batch, stored, hashed, parsing, main>>

Store(k, v, io) ==
    /\ pc = "idle" /\ nops < MaxOps
    /\ LET r == save_to_cache(cache, k, v, io) IN
       /\ cache' = r.files
       /\ ret' = IF r.raised THEN Raise(OSError) ELSE Return(None)
       /\ stored' = IF r.raised THEN stored ELSE stored \cup {<<k, v>>}
    /\ op' = Op("store", NoRow, k, v)
    /\ nops' = nops + 1
    /\ fr' = NoFrame /\ calls' = 0 /\ sleeps' = <<>>
    /\ UNCHANGED <<memo, pc, batch, hashed, parsing, main>>

\* A new run of the program: the lru_cache lives in the process, ./cache on disk.
Restart ==
    /\ pc = "idle"
    /\ memo' = <<>>
    /\ op' = Op("restart", NoRow, <<>>, None)
    /\ ret' = NoRet
    /\ fr' = NoFrame /\ calls' = 0 /\ sleeps' = <<>>
    /\ UNCHANGED <<cache, pc, batch, stored, nops, hashed, parsing, main>>

(***************************************************************************)
(* process_equipment_item, in steps: StartItem runs it up to the retry     *)
(* loop, Attempt is one iteration of the loop.  When the item ends it      *)
(* hands its result to the caller: the top level, or the batch loop b.     *)
(***************************************************************************)
\* return v
ItemReturn(b, row, v) ==
    IF b.active
    THEN /\ batch' = [b EXCEPT !.results = PutItem(@, Str(row.Unit), v), !.idx = @ + 1,
                               !.item_results = Append(@, v)]
         /\ pc' = "batch"
         /\ ret' = NoRet
    ELSE /\ batch' = b
         /\ pc' = "idle"
         /\ ret' = Return(v)

\* An exception leaves process_equipment_item; process_equipment_list does not
\* catch it either.
ItemRaise(b, e) ==
    /\ batch' = [b EXCEPT !.active = FALSE]
    /\ pc' = "idle"
    /\ ret' = Raise(e)

\* Building the prompt evaluates pd.isna for each optional column the row has.
PromptRaises(row) ==
    \/ PresentNotNa(row.Year) = "raise"
    \/ PresentNotNa(row.Location) = "raise"
    \/ PresentNotNa(row.Condition) = "raise"

StartItem(b, row) ==
    LET hr == get_equipment_hash(row) IN
    /\ cache' = cache /\ stored' = stored /\ calls' = 0 /\ sleeps' = <<>>
    /\ IF ~hr.ok
       THEN /\ memo' = memo
            /\ fr' = [NoFrame EXCEPT !.row = row]
            /\ ItemRaise(b, hr.exc)
       ELSE LET lk == get_cached_valuation(memo, cache, hr.h) IN
            /\ memo' = lk.lru
            /\ fr' = [NoFrame EXCEPT !.row = row, !.item_hash = hr.h,
                                     !.looked = TRUE, !.cached = lk.val,
                                     !.unreadable = Unreadable(cache[hr.h])]
            /\ IF Truthy(lk.val) THEN ItemReturn(b, row, lk.val)
               ELSE IF PromptRaises(row) THEN ItemRaise(b, PdNameError)
               ELSE /\ batch' = b
                    /\ pc' = "attempt"
                    /\ ret' = NoRet

Valuate(row) ==
    /\ pc = "idle" /\ nops < MaxOps
    /\ op' = Op("valuate", row, <<>>, None)
    /\ nops' = nops + 1
    /\ StartItem(NoBatch, row)
    /\ UNCHANGED <<hashed, parsing, main>>

ErrorResult(e) == JDict(<<<<Str("error"), JStr(e.msg)>>>>)

\* Mutant of HandleFailure: the delay is not doubled.
HandleFailure_NoBackoff(f, e) ==
    IF f.attempt < max_retries - 1
    THEN /\ sleeps' = Append(sleeps, f.retry_delay)
         /\ fr' = [f EXCEPT !.attempt = @ + 1]
         /\ pc' = "attempt"
         /\ UNCHANGED <<ret, batch>>
    ELSE /\ sleeps' = sleeps
         /\ fr' = f
         /\ ItemReturn(batch, f.row, ErrorResult(e))

\* except Exception as e, in the frame f
HandleFailure(f, e) ==
    IF f.attempt < max_retries - 1
    THEN /\ sleeps' = Append(sleeps, f.retry_delay)
         /\ fr' = [f EXCEPT !.attempt = @ + 1, !.retry_delay = @ * 2]
         /\ pc' = "attempt"
         /\ UNCHANGED <<ret, batch>>
    ELSE /\ sleeps' = sleeps
         /\ fr' = f
         /\ ItemReturn(batch, f.row, ErrorResult(e))

Attempt(o, io) ==
    /\ pc = "attempt"
    /\ calls' = calls + 1
    /\ IF o.raised
       THEN /\ io = "ok"
            /\ UNCHANGED <<cache, stored>>
            /\ HandleFailure([fr EXCEPT !.last_msg = o.msg], Exc("APIError", o.msg))
       ELSE LET result == parse_claude_response(o.content)
                sv == save_to_cache(cache, fr.item_hash, result, io)
                f == IF fr.first_ok = 0
                     THEN [fr EXCEPT !.first_ok = calls + 1, !.first_text = o.content]
                     ELSE fr
            IN IF ParseRaises(o.content)
               THEN /\ io = "ok"
                    /\ UNCHANGED <<cache, stored>>
                    /\ HandleFailure(f, ParseException(o.content))
               ELSE /\ cache' = sv.files
                    /\ IF sv.raised
                       THEN /\ stored' = stored
                            /\ HandleFailure([f EXCEPT !.io_failed = TRUE], OSError)
                       ELSE /\ stored' = stored \cup {<<fr.item_hash, result>>}
                            /\ sleeps' = sleeps
                            /\ fr' = f
                            /\ ItemReturn(batch, fr.row, result)
    /\ UNCHANGED <<memo, op, nops, hashed, parsing, main>>

(***************************************************************************)
(* enhance_valuation(equipment_id, initial_valuation, row).                *)
(***************************************************************************)
EnhanceFailed == JDict(<<<<Str("error"), JStr(Str("Failed to enhance valuation"))>>>>)
EnhanceError(e, initial_valuation) ==
    JDict(<<<<Str("error"), JStr(e.msg)>>, <<Str("original_valuation"), initial_valuation>>>>)

Enhance(row, initial_valuation, o, io) ==
    /\ pc = "idle" /\ nops < MaxOps
    /\ op' = Op("enhance", row, <<>>, initial_valuation)
    /\ nops' = nops + 1
    /\ fr' = NoFrame /\ sleeps' = <<>>
    /\ UNCHANGED <<memo, pc, batch, hashed, parsing, main>>
    /\ IF row.Unit = Missing \/ row.Description = Missing
       THEN \* the prompt is built outside the try
            /\ o = CHOOSE x \in ClientOutcomes : TRUE
            /\ io = "ok"
            /\ calls' = 0
            /\ ret' = Raise(Exc("KeyError", IF row.Unit = Missing THEN Str("Unit #")
                                             ELSE Str("Description")))
            /\ UNCHANGED <<cache, stored>>
       ELSE
       /\ calls' = 1
       /\ IF o.raised
          THEN /\ io = "ok"
               /\ ret' = Return(EnhanceError(Exc("APIError", o.msg), initial_valuation))
               /\ UNCHANGED <<cache, stored>>
          ELSE LET parsed == parse_claude_response(o.content) IN
               IF ParseRaises(o.content)
               THEN /\ io = "ok"
                    /\ ret' = Return(EnhanceError(ParseException(o.content), initial_valuation))
                    /\ UNCHANGED <<cache, stored>>
               ELSE
               IF parsed.type = "dict" /\ ~Truthy(DictGet(parsed, "error", None))
               THEN LET enhanced ==
                            IF ~HasKey(parsed, "enhanced_analysis")
                            THEN DictSet(parsed, "enhanced_analysis",
                                         DictGet(parsed, "justification", JStr(<<>>)))
                            ELSE parsed
                        hr == get_equipment_hash(row)
                    IN IF ~hr.ok
                       THEN /\ io = "ok"
                            /\ ret' = Return(EnhanceError(hr.exc, initial_valuation))
                            /\ UNCHANGED <<cache, stored>>
                       ELSE LET sv == save_to_cache(cache, EnhancedKey(hr.h), enhanced, io)
                            IN /\ cache' = sv.files
                               /\ stored' = IF sv.raised THEN stored
                                            ELSE stored \cup {<<EnhancedKey(hr.h), enhanced>>}
                               /\ ret' = IF sv.raised
                                         THEN Return(EnhanceError(OSError, initial_valuation))
                                         ELSE Return(enhanced)
               ELSE /\ io = "ok"
                    /\ ret' = Return(EnhanceFailed)
                    /\ UNCHANGED <<cache, stored>>

Next ==
    \/ \E k \in Keys : Lookup(k)
    \/ \E k \in Keys, v \in StoreVals, io \in IOOutcomes : Store(k, v, io)
    \/ \E row \in Rows : Valuate(row)
    \/ \E o \in ClientOutcomes, io \in IOOutcomes : Attempt(o, io)
    \/ \E row \in Rows, v \in StoreVals, o \in ClientOutcomes, io \in IOOutcomes :
          Enhance(row, v, o, io)
    \/ Restart

Spec == Init /\ [][Next]_vars

(***************************************************************************)
(* process_equipment_list(df, max_items): ValuateAll enters the function,  *)
(* BatchStep is one turn of its for loop (or the return after the last     *)
(* row); the rows' items run through StartItem and Attempt.  The pause of  *)
(* 0.5 s after each item changes no state and is not modelled.             *)
(***************************************************************************)
\* df.head(n)
head(df, n) ==
    IF n >= 0 THEN SubSeq(df, 1, IF n < Len(df) THEN n ELSE Len(df))
    ELSE SubSeq(df, 1, IF Len(df) + n > 0 THEN Len(df) + n ELSE 0)

\* process_df = df.head(max_items) if max_items else df
ProcessDf(df, max_items) ==
    IF max_items.given /\ max_items.n # 0 THEN head(df, max_items.n) ELSE df

ValuateAll(df, max_items) ==
    /\ pc = "idle"
    /\ op' = Op("valuateAll", NoRow, <<>>, None)
    /\ batch' = [active |-> TRUE, df |-> df, max_items |-> max_items,
                 process_df |-> ProcessDf(df, max_items),
                 idx |-> 1, results |-> <<>>, valuated |-> <<>>, item_results |-> <<>>]
    /\ pc' = "batch"
    /\ ret' = NoRet
    /\ nops' = nops + 1
    /\ fr' = NoFrame /\ calls' = 0 /\ sleeps' = <<>>
    /\ UNCHANGED <<cache, memo, stored, hashed, parsing, main>>

BatchStep ==
    /\ pc = "batch"
    /\ UNCHANGED <<op, nops, hashed, parsing, main>>
    /\ IF batch.idx > Len(batch.process_df)
       THEN /\ batch' = [batch EXCEPT !.active = FALSE]
            /\ pc' = "idle"
            /\ ret' = Return(JDict(batch.results))
            /\ UNCHANGED <<cache, memo, fr, calls, sleeps, stored>>
       ELSE LET row == batch.process_df[batch.idx] IN
            IF row.Unit = Missing
            THEN \* unit_id = row['Unit #']
                 /\ ItemRaise(batch, Exc("KeyError", Str("Unit #")))
                 /\ UNCHANGED <<cache, memo, fr, calls, sleeps, stored>>
            ELSE StartItem([batch EXCEPT !.valuated = Append(@, row)], row)

\* The tables given to the batch: every row of a table has the same columns.
MaxRows == 2
MaxLimit == 3
FramesOver(rows) == UNION {[1..n -> rows] : n \in 1..MaxRows}
Frames ==
    {<<>>} \cup FramesOver({RowDozer, RowCrane}) \cup FramesOver({RowLocated})
    \cup FramesOver({RowDated}) \cup FramesOver({RowNoUnit})
Limits == {NoLimit} \cup {Limit(n) : n \in 0..MaxLimit}

\* What the service and the storage do during a batch.
BatchOutcomes ==
    {o \in ClientOutcomes : o.msg = Str("timeout") \/ o.content \in {TextFenced, TextError}}

\* A batch run starts with an empty lru_cache and the files earlier runs left.
InitBatch ==
    /\ hashed = NoHashed /\ parsing = NoParsing /\ main = NoMain
    /\ cache \in [Keys -> {NoFile, File(json_dumps(parse_claude_response(TextFenced)))}]
    /\ \A k \in Keys \ HashKeys : cache[k] = NoFile
    /\ stored = {<<k, parse_claude_response(TextFenced)>> : k \in {x \in Keys : cache[x].exists}}
    /\ memo = <<>>
    /\ pc = "idle"
    /\ op = NoOp
    /\ fr = NoFrame
    /\ calls = 0
    /\ sleeps = <<>>
    /\ ret = NoRet
    /\ batch = NoBatch
    /\ nops = 0

\* One run of the batch.
NextBatch ==
    \/ \E df \in Frames, max_items \in Limits : op.name = "none" /\ ValuateAll(df, max_items)
    \/ BatchStep
    \/ \E o \in BatchOutcomes, io \in IOOutcomes : Attempt(o, io)

SpecBatch == InitBatch /\ [][NextBatch]_vars

(***************************************************************************)
(* get_equipment_hash on its own: two rows are drawn and fingerprinted.    *)
(***************************************************************************)
\* The variables of the valuation pipeline, and their values in a fresh process
\* with an empty ./cache.
pipeline == <<cache, memo, pc, op, fr, calls, sleeps, ret, batch, stored, nops>>
InitPipeline ==
    /\ cache = [k \in Keys |-> NoFile]
    /\ memo = <<>>
    /\ pc = "idle"
    /\ op = NoOp
    /\ fr = NoFrame
    /\ calls = 0
    /\ sleeps = <<>>
    /\ ret = NoRet
    /\ batch = NoBatch
    /\ stored = {}
    /\ nops = 0

\* Cell values of the rows fingerprinted: unit ids and descriptions are free
\* text, so they may contain the character | that get_equipment_hash puts
\* between the fields.
HashUnits == {"A", "A|B"}
HashDescriptions == {"C", "B|C"}
HashYears == {Missing, "2015"}
HashLocations == {Missing, "TX"}
HashConditions == {Missing, "Good"}
HashRows ==
    {Row(u, d, y, l, c) : u \in HashUnits, d \in HashDescriptions, y \in HashYears,
                          l \in HashLocations, c \in HashConditions}

InitHash ==
    /\ hashed \in {[NoHashed EXCEPT !.a = x, !.b = y] : x \in HashRows, y \in HashRows}
    /\ parsing = NoParsing /\ main = NoMain
    /\ InitPipeline

Fingerprint ==
    /\ ~hashed.done
    /\ hashed' = [hashed EXCEPT !.done = TRUE,
                                !.ha = get_equipment_hash(hashed.a),
                                !.hb = get_equipment_hash(hashed.b)]
    /\ UNCHANGED <<pipeline, parsing, main>>

NextHash == Fingerprint

SpecHash == InitHash /\ [][NextHash]_vars

(***************************************************************************)
(* parse_claude_response on its own: a text is drawn and parsed.           *)
(***************************************************************************)
MaxLen == 5
ParseTokens == {FenceOpen, FenceClose, P("{"), P("}"), N("1"), W("x"), Deep}
ParseTexts == UNION {[1..n -> ParseTokens] : n \in 0..MaxLen}

InitParse ==
    /\ parsing \in {[NoParsing EXCEPT !.text = t] : t \in ParseTexts}
    /\ hashed = NoHashed /\ main = NoMain
    /\ InitPipeline

Parse ==
    /\ ~parsing.done
    /\ parsing' = IF ParseRaises(parsing.text)
                  THEN [parsing EXCEPT !.done = TRUE, !.exc = ParseException(parsing.text)]
                  ELSE [parsing EXCEPT !.done = TRUE,
                                       !.val = parse_claude_response(parsing.text)]
    /\ UNCHANGED <<pipeline, hashed, main>>

NextParse == Parse

SpecParse == InitParse /\ [][NextParse]_vars

(***************************************************************************)
(* main of batch_process.py, in steps: MainStart runs it up to the call of *)
(* process_equipment_list, MainProcess enters that function (its loop runs *)
(* through BatchStep and Attempt), MainWrite is the rest of main.  An      *)
(* exception that leaves main ends the process with completion code 1.     *)
(***************************************************************************)
\* The characters of the unit ids given to main.
Chars(u) ==
    CASE u = "A1" -> <<"A", "1">>
      [] u = "A/1" -> <<"A", "/", "1">>
      [] u = "A-1" -> <<"A", "-", "1">>
      [] OTHER -> <<u>>

\* str.replace(old, new) for a one-character old
replace(cs, old, new) == [i \in 1..Len(cs) |-> IF cs[i] = old THEN new ELSE cs[i]]

\* safe_id = str(unit_id).replace('/', '-').replace('\\', '-')
safe_id(unit_id) == replace(replace(Chars(unit_id[1].s), "/", "-"), "\\", "-")

\* os.path.join(args.output, f"{safe_id}.json"), as the name inside args.output
output_file(unit_id) == Append(safe_id(unit_id), ".json")
combined_file == <<"combined_results", ".json">>

\* for unit_id, result in results.items(): json.dump(result, open(output_file, 'w'))
RECURSIVE WriteItems(_, _)
WriteItems(items, out) ==
    IF items = <<>> THEN out
    ELSE WriteItems(Tail(items),
                    PutItem(out, output_file(Head(items)[1]), json_dumps(Head(items)[2])))

\* pd.to_numeric(..., errors='coerce') on a Year cell
NumericCells == {"2015"}
to_numeric(cell) ==
    IF cell = Missing THEN Missing ELSE IF cell \in NumericCells THEN cell ELSE NaN

\* validate_equipment_data(df): every row of df has the same columns.
validate_equipment_data(df) ==
    IF df[1].Unit = Missing \/ df[1].Description = Missing
    THEN [ok |-> FALSE, exc |-> Exc("ValueError", Str("Missing required fields")), df |-> <<>>]
    ELSE [ok |-> TRUE, exc |-> NoExc,
          df |-> [i \in 1..Len(df) |-> [df[i] EXCEPT !.Year = to_numeric(@)]]]

MainExit(m, code, e) == [m EXCEPT !.state = "done", !.code = code, !.exc = e]

\* loads: whether load_data reads the file or raises ValueError.
MainStart(input_exists, loads, df, limit) ==
    /\ main.state = "none"
    /\ UNCHANGED <<pipeline, hashed, parsing>>
    /\ LET m0 == [main EXCEPT !.limit = limit, !.input_exists = input_exists]
           m1 == [m0 EXCEPT !.made_dir = TRUE]
           m2 == [m1 EXCEPT !.loaded = TRUE]
           v == validate_equipment_data(df)
       IN main' = IF ~input_exists THEN MainExit(m0, 1, NoExc)
                  ELSE IF ~loads
                  THEN MainExit(m1, 1, Exc("ValueError", Str("Unsupported file format")))
                  ELSE IF ~v.ok THEN MainExit(m2, 1, v.exc)
                  ELSE [m2 EXCEPT !.state = "loaded", !.validated_df = v.df]

\* results = process_equipment_list(validated_df, max_items=args.limit)
MainProcess ==
    /\ main.state = "loaded" /\ op.name = "none"
    /\ ValuateAll(main.validated_df, main.limit)

\* io: whether the output files can be opened for writing.
MainWrite(io) ==
    /\ main.state = "loaded" /\ op.name = "valuateAll" /\ pc = "idle"
    /\ UNCHANGED <<pipeline, hashed, parsing>>
    /\ main' = IF ret.kind = "raise" THEN MainExit(main, 1, ret.exc)
               ELSE IF io # "ok" THEN MainExit(main, 1, OSError)
               ELSE MainExit([main EXCEPT !.out = PutItem(WriteItems(ret.val.items, @),
                                                          combined_file, json_dumps(ret.val))],
                             0, NoExc)

\* The tables main loads.
RowSlash == Row("A/1", "Grader", Missing, Missing, Missing)
RowDash == Row("A-1", "Roller", Missing, Missing, Missing)
MainFrames ==
    FramesOver({RowDozer, RowSlash, RowDash}) \cup FramesOver({RowLocated})
    \cup FramesOver({RowNoUnit})
MainLimits == {NoLimit, Limit(1)}
MainKeys ==
    Keys \cup {get_equipment_hash(r).h : r \in {RowSlash, RowDash}}

InitMain ==
    /\ hashed = NoHashed /\ parsing = NoParsing /\ main = NoMain
    /\ cache = [k \in MainKeys |-> NoFile]
    /\ memo = <<>>
    /\ pc = "idle"
    /\ op = NoOp
    /\ fr = NoFrame
    /\ calls = 0
    /\ sleeps = <<>>
    /\ ret = NoRet
    /\ batch = NoBatch
    /\ stored = {}
    /\ nops = 0

NextMain ==
    \/ \E input_exists \in BOOLEAN, loads \in BOOLEAN, df \in MainFrames, limit \in MainLimits :
          MainStart(input_exists, loads, df, limit)
    \/ MainProcess
    \/ BatchStep
    \/ \E o \in BatchOutcomes, io \in IOOutcomes : Attempt(o, io)
    \/ \E io \in {"ok", "open_fail"} : MainWrite(io)

SpecMain == InitMain /\ [][NextMain]_vars

(***************************************************************************)
(* Properties.                                                             *)
(***************************************************************************)
ValuateDone == pc = "idle" /\ op.name = "valuate"
BaseKey(row) == get_equipment_hash(row).h
Suffixed(k) == Len(k) > 1 /\ k[Len(k)] = "_enhanced"
MemoKeys(lru) == {lru[i][1] : i \in 1..Len(lru)}
DictKeys(d) == {d.items[i][1] : i \in 1..Len(d.items)}
Min(a, b) == IF a < b THEN a ELSE b
\* An optional identity field: a NaN cell counts as the field being absent.
IdField(cell) == IF cell = NaN THEN Missing ELSE cell
SameIdentity(x, y) ==
    /\ x.Unit = y.Unit
    /\ x.Description = y.Description
    /\ IdField(x.Year) = IdField(y.Year)
    /\ IdField(x.Condition) = IdField(y.Condition)

\* C1: whenever the lookup made by valuate(record) returned a value (any stored
\* result, the empty one included), valuate has returned that value without
\* invoking the external service.
C1_HitReturnsCached ==
    (ValuateDone /\ fr.looked /\ fr.cached # None)
        => (ret = Return(fr.cached) /\ calls = 0)

\* C2: when valuate(record) has returned a result without an error key after a
\* cache miss, a lookup of the record's fingerprint in the same run returns
\* that result.
C2_MissThenHit ==
    (ValuateDone /\ ret.kind = "return" /\ fr.looked /\ fr.cached = None
        /\ ~HasKey(ret.val, "error"))
        => get_cached_valuation(memo, cache, fr.item_hash).val = ret.val

\* C3: no file of the cache holds a result that has an error key.
C3_NoErrorCached ==
    \A k \in DOMAIN cache :
        cache[k].exists => ~HasKey(ReadCacheFile(cache, k), "error")

\* C4: valuate invokes the service at most 3 times; when the service first
\* returns at its (k+1)-th invocation, valuate invoked it exactly k+1 times,
\* slept 2 then 4 between invocations, and returned the parsed response.
C4_RetryUntilSuccess ==
    /\ op.name = "valuate" => calls <= 3
    /\ (ValuateDone /\ fr.first_ok > 0) =>
          /\ calls = fr.first_ok
          /\ sleeps = SubSeq(<<2, 4>>, 1, fr.first_ok - 1)
          /\ ret = Return(parse_claude_response(fr.first_text))

\* C5: after store(f, r) has returned, lookup(f) returns r, whatever lookups
\* and stores came before.
C5_StoreThenLookup ==
    (pc = "idle" /\ op.name = "store" /\ ret.kind = "return")
        => get_cached_valuation(memo, cache, op.key).val = op.arg

\* C6: when valuateAll returns, it has valuated exactly the first min(L, n)
\* rows in input order (all n rows without a limit) and the keys of the
\* mapping it returns are the unit ids of those rows.
C6_LimitPrefix ==
    (pc = "idle" /\ op.name = "valuateAll" /\ ret.kind = "return") =>
        LET n == Len(batch.df)
            m == IF batch.max_items.given THEN Min(batch.max_items.n, n) ELSE n
        IN /\ batch.valuated = SubSeq(batch.df, 1, m)
           /\ DictKeys(ret.val) = {Str(batch.df[i].Unit) : i \in 1..m}

\* C7: valuateAll on rows that have a unit id and a description never ends with
\* an exception: it returns, having valuated every row of the truncated input
\* and given each an entry in the mapping.
C7_BatchContainsFailures ==
    (pc = "idle" /\ op.name = "valuateAll"
        /\ \A i \in 1..Len(batch.df) :
              batch.df[i].Unit # Missing /\ batch.df[i].Description # Missing)
        => /\ ret.kind = "return"
           /\ batch.valuated = batch.process_df
           /\ \A i \in 1..Len(batch.process_df) :
                 Str(batch.process_df[i].Unit) \in DictKeys(ret.val)

\* C8: a result of enhance(record, priorResult) that has an error key also has
\* original_valuation, equal to priorResult.
C8_EnhanceFailureKeepsPrior ==
    (pc = "idle" /\ op.name = "enhance" /\ ret.kind = "return"
        /\ HasKey(ret.val, "error"))
        => /\ HasKey(ret.val, "original_valuation")
           /\ DictGet(ret.val, "original_valuation", None) = op.arg

\* C9: enhance changes no file but the one keyed fingerprint(record) followed
\* by "_enhanced" and leaves the lru_cache alone; a step of valuate changes no
\* file but the one keyed fingerprint(record), and neither looks up nor
\* memoizes a suffixed key.
C9_EnhanceFrame ==
    [][ /\ (op'.name = "enhance" /\ nops' = nops + 1) =>
            /\ memo' = memo
            /\ \A k \in DOMAIN cache :
                  cache'[k] # cache[k] =>
                     /\ get_equipment_hash(op'.row).ok
                     /\ k = Append(BaseKey(op'.row), "_enhanced")
        /\ (op'.name = "valuate" /\ (nops' = nops + 1 \/ pc = "attempt")) =>
            /\ \A k \in DOMAIN cache :
                  cache'[k] # cache[k] =>
                     /\ get_equipment_hash(op'.row).ok
                     /\ k = BaseKey(op'.row)
                     /\ ~Suffixed(k)
            /\ \A k \in MemoKeys(memo') \ MemoKeys(memo) : ~Suffixed(k)
            /\ fr'.looked => ~Suffixed(fr'.item_hash)
      ]_vars

\* C9 witness: enhance has written the suffixed entry of a record whose base
\* entry exists.
C9_Witness ==
    /\ pc = "idle" /\ op.name = "enhance" /\ ret.kind = "return"
    /\ ~HasKey(ret.val, "error")
    /\ get_equipment_hash(op.row).ok
    /\ cache[BaseKey(op.row)].exists
    /\ cache[Append(BaseKey(op.row), "_enhanced")] = File(json_dumps(ret.val))
    /\ cache[BaseKey(op.row)] # cache[Append(BaseKey(op.row), "_enhanced")]

\* C10: from an empty cache, every value a lookup returns (the lookup of the
\* cache used on its own, and the one valuate makes) was stored before under
\* the key looked up.
C10_LookupReturnsStored ==
    /\ (pc = "idle" /\ op.name = "lookup" /\ ret.val # None)
          => <<op.key, ret.val>> \in stored
    /\ (fr.looked /\ fr.cached # None) => <<fr.item_hash, fr.cached>> \in stored

\* C10 witness: a lookup has returned a value.
C10_Witness ==
    pc = "idle" /\ op.name = "lookup" /\ ret.kind = "return" /\ ret.val # None

\* C11: two rows that both get a fingerprint get the same one exactly when
\* they agree on unit id, description, year and condition (an absent field
\* agreeing only with an absent one); the location plays no part.
C11_FingerprintIdentity ==
    (hashed.done /\ hashed.ha.ok /\ hashed.hb.ok)
        => (SameIdentity(hashed.a, hashed.b) <=> hashed.ha.h = hashed.hb.h)

\* C12: when main ends for an input path that does not exist, its completion
\* code is 1 and it has made no directory, loaded nothing, valuated nothing
\* and written nothing; when it ends without an exception for an input that
\* exists, its completion code is 0, every valuated row has its file in the
\* output directory, rows with different unit ids have different files, and
\* the combined file is there next to them.
C12_MainCompletion ==
    main.state = "done" =>
        /\ ~main.input_exists =>
              /\ main.code = 1
              /\ ~main.made_dir /\ ~main.loaded /\ main.out = <<>>
              /\ op = NoOp /\ batch = NoBatch /\ calls = 0
        /\ (main.input_exists /\ main.exc = NoExc) =>
              LET rows == batch.valuated
                  names == {main.out[i][1] : i \in 1..Len(main.out)}
                  file(i) == output_file(Str(rows[i].Unit))
              IN /\ main.code = 0
                 /\ \A i \in 1..Len(rows) : file(i) \in names
                 /\ \A i, j \in 1..Len(rows) :
                       rows[i].Unit # rows[j].Unit => file(i) # file(j)
                 /\ combined_file \in names
                 /\ \A i \in 1..Len(rows) : file(i) # combined_file

\* C13: every failed invocation of the service by valuate leaves the files of
\* the cache as they are, and when valuate ends without the service ever
\* having returned, it has invoked it 3 times, slept 2 then 4, and returns
\* {error: message of the last failure}.
C13_ExhaustedRetries ==
    [][ (op.name = "valuate" /\ pc = "attempt" /\ fr'.first_ok = 0) =>
            /\ cache' = cache
            /\ pc' = "idle" =>
                  /\ calls' = 3
                  /\ sleeps' = <<2, 4>>
                  /\ ret' = Return(JDict(<<<<Str("error"), JStr(fr'.last_msg)>>>>))
      ]_vars

\* C13 witness: valuate has ended after three failures, the last with a
\* message other than "timeout".
C13_Witness ==
    /\ ValuateDone /\ fr.first_ok = 0 /\ calls = 3
    /\ HasKey(ret.val, "error")
    /\ fr.last_msg = Str("overloaded")
    /\ ~cache[fr.item_hash].exists

\* C14: once save_to_cache has raised during valuate, valuate has ended by
\* raising that OSError, without a further invocation of the service.
C14_CacheWriteErrorPropagates ==
    (op.name = "valuate" /\ fr.io_failed)
        => /\ pc = "idle"
           /\ ret = Raise(OSError)
           /\ calls = fr.first_ok

\* C15: parse_claude_response raises on no text; it returns what the fenced
\* block deserializes to when the text has one that deserializes, otherwise
\* what the text from the first { to the last } deserializes to when that
\* deserializes, otherwise {raw_response: the text}.
C15_ParserTotal ==
    parsing.done =>
        LET m == FenceMatch(parsing.text)
            fenced == json_loads(m.group)
            braced == BraceSlice(parsing.text)
        IN /\ parsing.exc = NoExc
           /\ parsing.val =
                 IF m.found /\ fenced.ok THEN fenced.val
                 ELSE IF braced.ok THEN braced.val
                 ELSE JDict(<<<<Str("raw_response"), JStr(parsing.text)>>>>)

\* C16: between operations, a lookup of a key whose file is unreadable
\* returns None; a valuate that found the file of its row unreadable took it
\* as a miss and went on to invoke the service; and when valuate has ended
\* with the response of the service written, the file of its row holds that
\* result.
C16_CorruptEntryIsMiss ==
    /\ pc = "idle" =>
          \A k \in DOMAIN cache :
              Unreadable(cache[k]) => get_cached_valuation(memo, cache, k).val = None
    /\ (op.name = "valuate" /\ fr.looked /\ fr.unreadable) =>
          /\ fr.cached = None
          /\ pc = "attempt" \/ calls >= 1
    /\ (ValuateDone /\ fr.first_ok > 0 /\ ~fr.io_failed /\ ret.kind = "return") =>
          cache[fr.item_hash] = File(json_dumps(ret.val))

\* C17: valuateAll hands the rows it processes to process_equipment_item one
\* by one in input order, each once; when it returns, every processed row has
\* been handed over and has a result, the keys of the mapping are the unit ids
\* of the processed rows, and each key maps to the result of the last
\* processed row with that unit id.
C17_LastDuplicateWins ==
    op.name = "valuateAll" =>
        LET rows == batch.process_df
            done == batch.item_results
        IN /\ Len(batch.valuated) <= Len(rows)
           /\ batch.valuated = SubSeq(rows, 1, Len(batch.valuated))
           /\ Len(done) <= Len(batch.valuated)
           /\ (pc = "idle" /\ ret.kind = "return") =>
                 /\ batch.valuated = rows
                 /\ Len(done) = Len(rows)
                 /\ DictKeys(ret.val) = {Str(rows[i].Unit) : i \in 1..Len(rows)}
                 /\ Len(ret.val.items) = Cardinality({rows[i].Unit : i \in 1..Len(rows)})
                 /\ \A i \in 1..Len(rows) :
                       (\A j \in (i + 1)..Len(rows) : rows[j].Unit # rows[i].Unit)
                           => DictGet(ret.val, rows[i].Unit, None) = done[i]

\* C17 witness: valuateAll has returned after two rows with the same unit id
\* whose results differ; the mapping has the one key.
C17_Witness ==
    /\ pc = "idle" /\ op.name = "valuateAll" /\ ret.kind = "return"
    /\ Len(batch.process_df) = 2
    /\ batch.process_df[1].Unit = batch.process_df[2].Unit
    /\ batch.item_results[1] # batch.item_results[2]
    /\ Len(ret.val.items) = 1
    /\ DictGet(ret.val, batch.process_df[2].Unit, None) = batch.item_results[2]

====
